---- MODULE Spec2Model ----
(***************************************************************************)
(* Model of odoo-nginx-setup: the DNS provider clients (dns/hetzner.py,    *)
(* dns/cloudflare.py), the backend config mutation (systemd.py), the proxy *)
(* config / certificate helpers (nginx.py) and the orchestrator cmd_init   *)
(* (cli.py).                                                               *)
(*                                                                         *)
(* Strings are sequences of one-character strings, so that split, join,    *)
(* endswith and slicing are computed as the code computes them.            *)
(***************************************************************************)
EXTENDS Integers, Sequences, FiniteSets, TLC

VARIABLES
    fqdnIn,     \* the fqdn argument the client calls are made with
    zoneIn,     \* the zone_name argument the client calls are made with
    nameOut,    \* what the last _relative_name call returned
    client,     \* which provider client was constructed
    zones,      \* provider: names of the zones that exist
    hzRrsets,   \* provider: Hetzner rrsets, one per (zone, name, type)
    cfRecords,  \* provider: Cloudflare dns_records
    call,       \* the last provider-client call: requests sent and outcome
    confFile,   \* content of the backend config file (runtime.config_file)
    confHist,   \* contents of the file before each ensure_proxy_mode call
    confRet,    \* return values of the ensure_proxy_mode calls so far
    pc,         \* cmd_init: the statement the run is at
    args,       \* cmd_init: the parsed command line
    env,        \* the environment variables holding the provider tokens
    runtime,    \* the OdooRuntime build_runtime returned
    loc,        \* locals of _dns_setup
    effects,    \* every external command, request and file write so far
    err,        \* the message of the exception that ended the run
    enabled,    \* sites-enabled/<domain> links to sites-available/<domain>
    siteFile,   \* content of sites-available/<domain>
    nginxLoaded,\* the configuration of the domain the running nginx serves
    cb,         \* the running certbot: names, challenge being handled
    faults      \* failed lookups and requests of the hook scripts so far

nameVars == <<fqdnIn, zoneIn, nameOut>>
dnsVars == <<client, zones, hzRrsets, cfRecords, call>>
confVars == <<confFile, confHist, confRet>>
runVars == <<pc, args, env, runtime, loc, effects, err, enabled, siteFile,
             nginxLoaded, cb, faults>>
vars == <<nameVars, dnsVars, confVars, runVars>>

----------------------------------------------------------------------------
(* Bounds *)

MaxLen == 4        \* longest fqdn string drawn for _relative_name
MaxZoneLen == 2    \* longest zone_name string drawn for _relative_name
MaxLabels == 4     \* most labels of a domain drawn for zone resolution
MaxUpsertLabels == 2  \* most labels of a record name drawn for upsert_record
MaxConfLen == 4    \* longest config file content, in symbols
MaxCalls == 2      \* ensure_proxy_mode invocations on one file
MaxHookFaults == 1 \* failed lookups and requests of the hook scripts in a run

----------------------------------------------------------------------------
(* Strings *)

Chars == {"a", "b", "."}

Strs(n) == UNION {[1..k -> Chars] : k \in 0..n}

EndsWith(s, suf) ==
    /\ Len(suf) <= Len(s)
    /\ SubSeq(s, Len(s) - Len(suf) + 1, Len(s)) = suf

\* needle in haystack (Python's `in` on str)
Contains(s, sub) ==
    \E i \in 0..(Len(s) - Len(sub)) : SubSeq(s, i + 1, i + Len(sub)) = sub

Dots(s) == {i \in 1..Len(s) : s[i] = "."}

FirstDot(s) == CHOOSE i \in Dots(s) : \A j \in Dots(s) : i <= j

\* str.split(".")
RECURSIVE Split(_)
Split(s) ==
    IF Dots(s) = {} THEN <<s>>
    ELSE <<SubSeq(s, 1, FirstDot(s) - 1)>>
             \o Split(SubSeq(s, FirstDot(s) + 1, Len(s)))

\* ".".join(parts)
RECURSIVE Join(_)
Join(parts) ==
    IF Len(parts) = 0 THEN <<>>
    ELSE IF Len(parts) = 1 THEN parts[1]
    ELSE parts[1] \o <<".">> \o Join(Tail(parts))

----------------------------------------------------------------------------
(* dns/hetzner.py, dns/cloudflare.py: pure helpers *)

\* mutant: the candidates start below the domain itself
ZoneCandidatesBelowFqdn(fqdn) ==
    LET parts == Split(fqdn)
    IN  [i \in 1..(Len(parts) - 2) |-> Join(SubSeq(parts, i + 1, Len(parts)))]

\* [".".join(parts[i:]) for i in range(len(parts) - 1)]
ZoneCandidates(fqdn) ==
    LET parts == Split(fqdn)
    IN  [i \in 1..(Len(parts) - 1) |-> Join(SubSeq(parts, i, Len(parts)))]

Apex == <<"@">>

\* mutant: strips the zone name but not the dot before it
RelativeNameKeepsDot(fqdn, zone_name) ==
    IF fqdn = zone_name THEN Apex
    ELSE IF EndsWith(fqdn, <<".">> \o zone_name)
         THEN SubSeq(fqdn, 1, Len(fqdn) - Len(zone_name))
         ELSE fqdn

RelativeName(fqdn, zone_name) ==
    IF fqdn = zone_name THEN Apex
    ELSE LET suffix == <<".">> \o zone_name
         IN  IF EndsWith(fqdn, suffix)
             THEN SubSeq(fqdn, 1, Len(fqdn) - Len(suffix))
             ELSE fqdn

----------------------------------------------------------------------------
(* The provider side of one HTTP exchange.  `o` is what the network and    *)
(* the provider do with a request: "ok" (the provider processes it and     *)
(* answers according to its state), "5xx" (a non-success status, request   *)
(* not processed), "timeout" (no answer within the client's timeout).      *)

Outcomes == {"ok", "5xx", "timeout"}

Success(st) == st = "2xx"

\* r.raise_for_status(); a timeout raises inside requests itself
Raises(st) == ~Success(st)

----------------------------------------------------------------------------
(* dns/hetzner.py, dns/cloudflare.py: zone resolution *)

NoZone == <<"?">>

\* the `for zone_name in self._zone_candidates(fqdn)` loop, from candidate i;
\* failAt is the query (0: none) whose request ends in a non-success status
RECURSIVE FindZoneFrom(_, _, _, _)
FindZoneFrom(cands, i, zs, failAt) ==
    IF i > Len(cands)
    THEN [status |-> "notfound", queried |-> cands, zone |-> NoZone]
    ELSE IF i = failAt
    THEN [status |-> "error", queried |-> SubSeq(cands, 1, i), zone |-> NoZone]
    ELSE IF cands[i] \in zs
    THEN [status |-> "ok", queried |-> SubSeq(cands, 1, i), zone |-> cands[i]]
    ELSE FindZoneFrom(cands, i + 1, zs, failAt)

\* HetznerDnsClient.find_zone: returns (zone_name, zone_name)
HzFindZone(fqdn, zs, failAt) ==
    LET r == FindZoneFrom(ZoneCandidates(fqdn), 1, zs, failAt)
    IN  [op |-> "hz_find_zone", fqdn |-> fqdn, status |-> r.status,
         queried |-> r.queried,
         result |-> IF r.status = "ok" THEN <<r.zone, r.zone>> ELSE NoZone,
         failed |-> r.status = "error",
         raised |-> r.status # "ok"]

\* the provider's opaque id of a zone (data["result"][0]["id"])
ZoneId(zone_name) == <<"id">> \o zone_name

\* CloudflareClient.find_zone_id
CfFindZoneId(fqdn, zs, failAt) ==
    LET r == FindZoneFrom(ZoneCandidates(fqdn), 1, zs, failAt)
    IN  [op |-> "cf_find_zone_id", fqdn |-> fqdn, status |-> r.status,
         queried |-> r.queried,
         result |-> IF r.status = "ok" THEN ZoneId(r.zone) ELSE NoZone,
         failed |-> r.status = "error",
         raised |-> r.status # "ok"]

----------------------------------------------------------------------------
(* dns/hetzner.py: upsert_record *)

HzKey(rrsets, zone_name, name, rtype) ==
    {r \in rrsets : r.zone = zone_name /\ r.name = name /\ r.type = rtype}

\* provider: GET /zones/{zone}/rrsets/{name}/{type}
HzGetStatus(rrsets, zs, zone_name, name, rtype, o) ==
    IF o # "ok" THEN o
    ELSE IF zone_name \in zs /\ HzKey(rrsets, zone_name, name, rtype) # {}
    THEN "2xx" ELSE "404"

\* provider: DELETE /zones/{zone}/rrsets/{name}/{type}
HzDeleteStatus(rrsets, zs, zone_name, name, rtype, o) ==
    HzGetStatus(rrsets, zs, zone_name, name, rtype, o)

HzAfterDelete(rrsets, zs, zone_name, name, rtype, o) ==
    IF Success(HzDeleteStatus(rrsets, zs, zone_name, name, rtype, o))
    THEN rrsets \ HzKey(rrsets, zone_name, name, rtype)
    ELSE rrsets

\* provider: POST /zones/{zone}/rrsets; an rrset is unique per (name, type)
HzPostStatus(rrsets, zs, zone_name, name, rtype, o) ==
    IF o # "ok" THEN o
    ELSE IF zone_name \notin zs THEN "404"
    ELSE IF HzKey(rrsets, zone_name, name, rtype) # {} THEN "409"
    ELSE "2xx"

HzAfterPost(rrsets, zs, zone_name, name, rtype, value, o) ==
    IF Success(HzPostStatus(rrsets, zs, zone_name, name, rtype, o))
    THEN rrsets \cup {[zone |-> zone_name, name |-> name, type |-> rtype,
                       value |-> value]}
    ELSE rrsets

Req(method, zone, name, rtype, st) ==
    [method |-> method, zone |-> zone, name |-> name, type |-> rtype, st |-> st]

\* line 56: requests.delete(...) without raise_for_status(): only a timeout
\* (an exception of the HTTP library) leaves upsert_record
HzDeleteRaises(st) == st = "timeout"

\* HetznerDnsClient.upsert_record; o = [get, del, post] are the outcomes of
\* its three requests
HzUpsert(rrsets, zs, zone_name, rtype, fqdn, content, fail_if_exists, o) ==
    LET name   == RelativeName(fqdn, zone_name)
        getSt  == HzGetStatus(rrsets, zs, zone_name, name, rtype, o.get)
        getRq  == IF fail_if_exists
                  THEN <<Req("GET", zone_name, name, rtype, getSt)>> ELSE <<>>
        \* _rrset_exists: 404 is False, another failure raises, else True
        stop1  == fail_if_exists /\ getSt # "404"
        delSt  == HzDeleteStatus(rrsets, zs, zone_name, name, rtype, o.del)
        afterD == HzAfterDelete(rrsets, zs, zone_name, name, rtype, o.del)
        delRq  == <<Req("DELETE", zone_name, name, rtype, delSt)>>
        postSt == HzPostStatus(afterD, zs, zone_name, name, rtype, o.post)
        afterP == HzAfterPost(afterD, zs, zone_name, name, rtype, content, o.post)
        postRq == <<Req("POST", zone_name, name, rtype, postSt)>>
        base   == [op |-> "hz_upsert", zone |-> zone_name, fqdn |-> fqdn,
                   type |-> rtype, value |-> content]
    IN  IF stop1
        THEN [rrsets |-> rrsets,
              call |-> base @@ [reqs |-> getRq, raised |-> TRUE]]
        ELSE IF HzDeleteRaises(delSt)
        THEN [rrsets |-> afterD,
              call |-> base @@ [reqs |-> getRq \o delRq, raised |-> TRUE]]
        ELSE [rrsets |-> afterP,
              call |-> base @@ [reqs |-> getRq \o delRq \o postRq,
                                raised |-> Raises(postSt)]]

----------------------------------------------------------------------------
(* dns/cloudflare.py: upsert_record *)

NoRec == [zone |-> NoZone]

CfExisting(records, zone_id, rtype, name) ==
    {r \in records : r.zone = zone_id /\ r.type = rtype /\ r.name = name}

\* provider: GET /zones/{zone_id}/dns_records?type=&name=
CfListStatus(zs, zone_id, o) ==
    IF o # "ok" THEN o
    ELSE IF \E z \in zs : ZoneId(z) = zone_id THEN "2xx" ELSE "404"

\* provider: PUT or POST of a record; a record identical to another one of
\* the zone is rejected
CfWriteStatus(others, zs, zone_id, new, o) ==
    IF o # "ok" THEN o
    ELSE IF ~\E z \in zs : ZoneId(z) = zone_id THEN "404"
    ELSE IF new \in others THEN "400"
    ELSE "2xx"

\* rec_id = existing[0]["id"]: `first` is the record the provider lists first
CfPickFirst(existing, first) ==
    IF existing = {} THEN first = NoRec ELSE first \in existing

\* CloudflareClient.upsert_record; o = [get, write] are the outcomes of its
\* two requests
CfUpsert(records, zs, zone_id, rtype, name, content, first, o) ==
    LET getSt    == CfListStatus(zs, zone_id, o.get)
        getRq    == <<Req("GET", zone_id, name, rtype, getSt)>>
        existing == IF Success(getSt)
                    THEN CfExisting(records, zone_id, rtype, name) ELSE {}
        new      == [zone |-> zone_id, type |-> rtype, name |-> name,
                     value |-> content]
        others   == IF existing # {} THEN records \ {first} ELSE records
        wrSt     == CfWriteStatus(others, zs, zone_id, new, o.write)
        wrRq     == <<Req(IF existing # {} THEN "PUT" ELSE "POST",
                          zone_id, name, rtype, wrSt)>>
        base     == [op |-> "cf_upsert", zone |-> zone_id, fqdn |-> name,
                     type |-> rtype, value |-> content]
    IN  IF Raises(getSt)
        THEN [records |-> records,
              call |-> base @@ [reqs |-> getRq, raised |-> TRUE]]
        ELSE [records |-> IF Success(wrSt) THEN others \cup {new} ELSE records,
              call |-> base @@ [reqs |-> getRq \o wrRq,
                                raised |-> Raises(wrSt)]]

----------------------------------------------------------------------------
(* systemd.py: ensure_proxy_mode *)

NL == "\n"

\* the text "proxy_mode = True", in the symbols config contents are made of
Directive == <<"proxy_mode", " = ", "True">>

ConfSyms == {"proxy_mode", " = ", "True", NL, "#"}

ConfStrs(n) == UNION {[1..k -> ConfSyms] : k \in 0..n}

\* the file content after the call, and the value returned
EnsureProxyMode(content) ==
    IF Contains(content, Directive)
    THEN [content |-> content, changed |-> FALSE]
    ELSE LET c1 == IF ~EndsWith(content, <<NL>>) THEN content \o <<NL>>
                   ELSE content
         IN  [content |-> c1 \o Directive \o <<NL>>, changed |-> TRUE]

----------------------------------------------------------------------------
(* Inputs and provider states the client calls are made with *)

Labels == {<<"a">>, <<"b">>}

\* domains of 1..n labels
DnsNames(n) == {Join(p) : p \in UNION {[1..k -> Labels] : k \in 1..n}}

\* zones that may exist at the provider: a, b.a, a.b.a, b.b
ZoneUniverse ==
    {<<"a">>, <<"b", ".", "a">>, <<"a", ".", "b", ".", "a">>, <<"b", ".", "b">>}

Types == {"A", "AAAA"}

Values == {"v1", "v2"}

Pending == <<"pending">>

NoCall == [op |-> "none"]

NameIdle == fqdnIn = <<>> /\ zoneIn = <<>> /\ nameOut = Pending

DnsIdle == client = "none" /\ zones = {} /\ hzRrsets = {} /\ cfRecords = {} /\ call = NoCall

ConfIdle == confFile = <<>> /\ confHist = <<>> /\ confRet = <<>>

NoArgs == [domain |-> <<>>]

NoLoc == [ip_mode |-> "none"]

NoCb == [names |-> <<>>]

NoConfig == [kind |-> "none"]

RunIdle ==
    /\ pc = "idle" /\ args = NoArgs /\ env = {} /\ runtime = NoArgs
    /\ loc = NoLoc /\ effects = <<>> /\ err = "" /\ enabled = FALSE
    /\ siteFile = NoConfig /\ nginxLoaded = NoConfig /\ cb = NoCb
    /\ faults = 0

----------------------------------------------------------------------------
(* Client calls *)

\* hz.find_zone(fqdnIn)
HzFindZoneCall ==
    /\ client = "hetzner"
    /\ \E failAt \in 0..Len(ZoneCandidates(fqdnIn)) :
           call' = HzFindZone(fqdnIn, zones, failAt)
    /\ UNCHANGED <<nameVars, client, zones, hzRrsets, cfRecords, confVars, runVars>>

\* cf.find_zone_id(fqdnIn)
CfFindZoneIdCall ==
    /\ client = "cloudflare"
    /\ \E failAt \in 0..Len(ZoneCandidates(fqdnIn)) :
           call' = CfFindZoneId(fqdnIn, zones, failAt)
    /\ UNCHANGED <<nameVars, client, zones, hzRrsets, cfRecords, confVars, runVars>>

\* hz.upsert_record(zoneIn, zoneIn, rtype, fqdnIn, content, fail_if_exists)
HzUpsertCall(rtype, content, fail_if_exists, o) ==
    /\ client = "hetzner"
    /\ LET r == HzUpsert(hzRrsets, zones, zoneIn, rtype, fqdnIn, content,
                         fail_if_exists, o)
       IN  /\ hzRrsets' = r.rrsets
           /\ call' = r.call
    /\ UNCHANGED <<nameVars, client, zones, cfRecords, confVars, runVars>>

\* cf.upsert_record(zone_id, rtype, fqdnIn, content)
CfUpsertCall(rtype, content, o) ==
    /\ client = "cloudflare"
    /\ \E first \in cfRecords \cup {NoRec} :
           /\ CfPickFirst(CfExisting(cfRecords, ZoneId(zoneIn), rtype, fqdnIn),
                          first)
           /\ LET r == CfUpsert(cfRecords, zones, ZoneId(zoneIn), rtype, fqdnIn,
                                content, first, o)
              IN  /\ cfRecords' = r.records
                  /\ call' = r.call
    /\ UNCHANGED <<nameVars, client, zones, hzRrsets, confVars, runVars>>

\* self._relative_name(fqdnIn, zoneIn)
RelativeNameCall ==
    /\ nameOut' = RelativeName(fqdnIn, zoneIn)
    /\ UNCHANGED <<fqdnIn, zoneIn, dnsVars, confVars, runVars>>

\* changed = ensure_proxy_mode(runtime.config_file)
EnsureProxyModeCall ==
    /\ Len(confRet) < MaxCalls
    /\ LET r == EnsureProxyMode(confFile)
       IN  /\ confFile' = r.content
           /\ confHist' = Append(confHist, confFile)
           /\ confRet' = Append(confRet, r.changed)
    /\ UNCHANGED <<nameVars, dnsVars, runVars>>

----------------------------------------------------------------------------
(* Zone resolution of both clients, for every domain and set of zones *)

InitZone ==
    /\ fqdnIn \in DnsNames(MaxLabels)
    /\ zoneIn = <<>>
    /\ nameOut = Pending
    /\ client \in {"hetzner", "cloudflare"}
    /\ zones \in SUBSET ZoneUniverse
    /\ hzRrsets = {}
    /\ cfRecords = {}
    /\ call = NoCall
    /\ ConfIdle
    /\ RunIdle

NextZone == HzFindZoneCall \/ CfFindZoneIdCall

SpecZone == InitZone /\ [][NextZone]_vars

----------------------------------------------------------------------------
(* upsert_record of both clients, from every provider state *)

\* one entry per way a call can go: the outcome of a request that is never
\* sent is left at "ok"
HzOutcomes(fail_if_exists) ==
    {o \in [get : Outcomes, del : Outcomes, post : Outcomes] :
        /\ ~fail_if_exists => o.get = "ok"
        /\ o.get # "ok" => o.del = "ok" /\ o.post = "ok"
        /\ o.del = "timeout" => o.post = "ok"}

CfOutcomes ==
    {o \in [get : Outcomes, write : Outcomes] : o.get # "ok" => o.write = "ok"}

\* rrsets of the zone: at most one per (name, type)
HzStates(zone_name, name) ==
    {{}} \cup
    {{[zone |-> zone_name, name |-> name, type |-> "A", value |-> v]} :
        v \in Values}

\* dns_records of the zone: any number per (name, type)
CfStates(zone_id, name) ==
    SUBSET {[zone |-> zone_id, type |-> "A", name |-> name, value |-> v] :
               v \in Values}

InitUpsert ==
    /\ zoneIn \in ZoneUniverse
    /\ fqdnIn \in DnsNames(MaxUpsertLabels)
    /\ nameOut = Pending
    /\ zones \in SUBSET {zoneIn}
    /\ \/ /\ client = "hetzner"
          /\ hzRrsets \in HzStates(zoneIn, RelativeName(fqdnIn, zoneIn))
          /\ cfRecords = {}
       \/ /\ client = "cloudflare"
          /\ hzRrsets = {}
          /\ cfRecords \in CfStates(ZoneId(zoneIn), fqdnIn)
    /\ call = NoCall
    /\ ConfIdle
    /\ RunIdle

NextUpsert ==
    \/ \E rtype \in Types, content \in Values, fie \in BOOLEAN :
           \E o \in HzOutcomes(fie) : HzUpsertCall(rtype, content, fie, o)
    \/ \E rtype \in Types, content \in Values, o \in CfOutcomes :
           CfUpsertCall(rtype, content, o)
    \/ HzFindZoneCall
    \/ CfFindZoneIdCall

SpecUpsert == InitUpsert /\ [][NextUpsert]_vars

----------------------------------------------------------------------------
(* _relative_name, and the name upsert_record sends, for every pair of strings *)

InitName ==
    /\ fqdnIn \in Strs(MaxLen)
    /\ zoneIn \in Strs(MaxZoneLen)
    /\ nameOut = Pending
    /\ client = "hetzner"
    /\ zones = {zoneIn}
    /\ hzRrsets = {}
    /\ cfRecords = {}
    /\ call = NoCall
    /\ ConfIdle
    /\ RunIdle

NextName ==
    \/ RelativeNameCall
    \/ HzUpsertCall("A", "v1", FALSE, [get |-> "ok", del |-> "ok", post |-> "ok"])

SpecName == InitName /\ [][NextName]_vars

----------------------------------------------------------------------------
(* ensure_proxy_mode, for every file content *)

InitConf ==
    /\ confFile \in ConfStrs(MaxConfLen)
    /\ confHist = <<>>
    /\ confRet = <<>>
    /\ NameIdle
    /\ DnsIdle
    /\ RunIdle

NextConf == EnsureProxyModeCall

SpecConf == InitConf /\ [][NextConf]_vars

----------------------------------------------------------------------------
(* nginx.py *)

\* re.sub(r"[^a-zA-Z0-9_]", "_", domain)
Slug(domain) ==
    [i \in 1..Len(domain) |-> IF domain[i] \in {"a", "b"} THEN domain[i] ELSE "_"]

\* webroot = f"/var/www/{domain}"
Webroot(domain) == <<"/var/www/">> \o domain

\* render_acme_config: the server block, by what it configures
RenderAcmeConfig(domain, webroot) ==
    [kind |-> "acme",
     server_name |-> domain,
     listen |-> {"80"},
     challenge_location |-> "/.well-known/acme-challenge/",
     challenge_root |-> webroot,
     redirect |-> <<"301", "http", "://", "$host", "$request_uri">>]

\* what nginx answers to a plaintext request on port 80 while it serves the
\* config: the longest matching prefix location handles the request, and
\* $host and $request_uri stand for the host and the uri of the request
ServeAcme(config, req) ==
    IF req.uri[1] = config.challenge_location
    THEN [kind |-> "file", root |-> config.challenge_root, uri |-> req.uri]
    ELSE [kind |-> "redirect", status |-> config.redirect[1],
          location |-> [i \in 1..4 |->
                           LET t == config.redirect[i + 1]
                           IN  IF t = "$host" THEN req.host
                               ELSE IF t = "$request_uri" THEN req.uri
                               ELSE t]]

\* render_https_config: the upstreams and server blocks, by what they configure
RenderHttpsConfig(domain, odoo_port, longpolling_port, single_upstream, backend_host) ==
    LET up == Slug(domain)
        backend == up \o <<"_backend">>
        lp_upstream == IF single_upstream THEN backend
                       ELSE up \o <<"_longpolling">>
    IN  [kind |-> "https",
         server_name |-> domain,
         listen |-> {"80", "443"},
         upstreams |->
             {[name |-> backend, server |-> <<backend_host, odoo_port>>]}
             \cup (IF ~single_upstream
                   THEN {[name |-> up \o <<"_longpolling">>,
                          server |-> <<backend_host, longpolling_port>>]}
                   ELSE {}),
         root_pass |-> backend,
         longpolling_pass |-> lp_upstream,
         websocket_pass |-> lp_upstream,
         certificate |-> domain,
         redirect |-> <<"301", "https", "://", "$host", "$request_uri">>]

Eff(cmd, ok) == [cmd |-> cmd, ok |-> ok]

\* mutant: nginx is reloaded whatever nginx -t said
TestAndReloadUnchecked(loaded, file, isEnabled, testOk, reloadOk) ==
    [effects |-> <<Eff("nginx -t", testOk), Eff("reload nginx", reloadOk)>>,
     loaded  |-> IF reloadOk /\ isEnabled THEN file ELSE loaded,
     raised  |-> ~(testOk /\ reloadOk)]

\* test_and_reload_nginx: each _run raises when its command fails; a reload
\* makes nginx serve the files the enabled links point at
TestAndReloadNginx(loaded, file, isEnabled, testOk, reloadOk) ==
    IF ~testOk
    THEN [effects |-> <<Eff("nginx -t", FALSE)>>,
          loaded  |-> loaded,
          raised  |-> TRUE]
    ELSE [effects |-> <<Eff("nginx -t", TRUE), Eff("reload nginx", reloadOk)>>,
          loaded  |-> IF reloadOk /\ isEnabled THEN file ELSE loaded,
          raised  |-> ~reloadOk]

\* cmd: "-d", domain, and "-d", f"*.{domain}" when wildcard
CertbotNames(domain, wildcard) ==
    IF wildcard THEN <<domain, <<"*", ".">> \o domain>> ELSE <<domain>>

----------------------------------------------------------------------------
(* nginx.py: the hook scripts certbot_issue_hetzner_dns generates *)

AcmeChallenge == <<"_acme-challenge">>

\* ${s%suf}
StripSuffix(s, suf) ==
    IF EndsWith(s, suf) THEN SubSeq(s, 1, Len(s) - Len(suf)) ELSE s

\* "\"" + $val + "\""
Quoted(val) == <<"\"", val, "\"">>

\* find_zone of the scripts: `miss` are the lookups (by position) that give
\* no zone id although the zone may exist: curl or the provider failed, and
\* the function, run in a command substitution, goes on
RECURSIVE HookFindZone(_, _, _, _)
HookFindZone(candidate, queried, zs, miss) ==
    LET q == Append(queried, candidate)
    IN  IF candidate \in zs /\ Len(q) \notin miss
        THEN [found |-> TRUE, zone |-> candidate, queried |-> q]
        ELSE IF Dots(candidate) = {}
        THEN [found |-> FALSE, zone |-> <<>>, queried |-> q]
        ELSE HookFindZone(SubSeq(candidate, FirstDot(candidate) + 1,
                                 Len(candidate)), q, zs, miss)

\* mutant: the record is always named as for the zone apex
HookRecordNameApex(fqdn, zone_name) == AcmeChallenge

\* record_name of both scripts
HookRecordName(fqdn, zone_name) ==
    IF fqdn # zone_name
    THEN AcmeChallenge \o <<".">> \o StripSuffix(fqdn, <<".">> \o zone_name)
    ELSE AcmeChallenge

\* auth_script: exit status, requests and the provider state it leaves
AuthScript(fqdn, validation, zs, rrsets, miss, o) ==
    LET z    == HookFindZone(fqdn, <<>>, zs, miss)
        name == HookRecordName(fqdn, z.zone)
        st   == HzPostStatus(rrsets, zs, z.zone, name, "TXT", o)
    IN  IF ~z.found
        THEN [cmd |-> "hook_auth", ok |-> FALSE, queried |-> z.queried,
              found |-> FALSE, reqs |-> <<>>, stderr |-> "Could not determine zone",
              rrsets |-> rrsets]
        ELSE [cmd |-> "hook_auth", ok |-> st # "timeout", queried |-> z.queried,
              found |-> TRUE, reqs |-> <<Req("POST", z.zone, name, "TXT", st)>>, stderr |-> "",
              rrsets |-> HzAfterPost(rrsets, zs, z.zone, name, "TXT",
                                     Quoted(validation), o)]

\* cleanup_script: `exit 0` in find_zone ends the command substitution only,
\* the script goes on with an empty zone_name
CleanupScript(fqdn, zs, rrsets, miss, o) ==
    LET z    == HookFindZone(fqdn, <<>>, zs, miss)
        name == HookRecordName(fqdn, z.zone)
        st   == HzDeleteStatus(rrsets, zs, z.zone, name, "TXT", o)
    IN  [cmd |-> "hook_cleanup", ok |-> st # "timeout", queried |-> z.queried,
         found |-> z.found, reqs |-> <<Req("DELETE", z.zone, name, "TXT", st)>>, stderr |-> "",
         rrsets |-> HzAfterDelete(rrsets, zs, z.zone, name, "TXT", o)]

----------------------------------------------------------------------------
(* find_zone of the hook scripts next to find_zone of the client *)

\* the lookups of one run of find_zone that may give no zone id
HookMisses(fqdn) ==
    {m \in SUBSET (1..Len(Split(fqdn))) : Cardinality(m) <= MaxHookFaults}

\* zone_info="$(find_zone)" of a hook script run with CERTBOT_DOMAIN = fqdnIn
HookFindZoneCall ==
    /\ pc = "idle"
    /\ effects = <<>>
    /\ \E miss \in HookMisses(fqdnIn) :
           LET z == HookFindZone(fqdnIn, <<>>, zones, miss)
           IN  effects' = <<[cmd |-> "hook_find_zone", ok |-> z.found,
                             found |-> z.found, zone |-> z.zone,
                             queried |-> z.queried, missed |-> miss]>>
    /\ UNCHANGED <<pc, args, env, runtime, loc, err, enabled, siteFile,
                   nginxLoaded, cb, faults>>
    /\ UNCHANGED <<nameVars, dnsVars, confVars>>

InitHookZone == InitZone /\ client = "hetzner"

NextHookZone == HzFindZoneCall \/ HookFindZoneCall

SpecHookZone == InitHookZone /\ [][NextHookZone]_vars

----------------------------------------------------------------------------
(* cli.py: cmd_init *)

BackendHost == "127.0.0.1"

RunDomains == {<<"b", ".", "a">>, <<"a", ".", "b", ".", "a">>}

RunZones == {<<"b", ".", "a">>, <<"a", ".", "b", ".", "a">>}

Runtimes ==
    {[service_name |-> "odoo", config_file |-> "/etc/odoo.conf",
      http_port |-> "8069", longpolling_port |-> "8072"],
     [service_name |-> "", config_file |-> "/opt/odoo.conf",
      http_port |-> "8070", longpolling_port |-> "8071"]}

\* the content of the file at runtime.config_file
ConfigFiles(path) ==
    IF path = "/etc/odoo.conf" THEN <<"#", NL>>
    ELSE <<"proxy_mode", " = ", "True", NL>>

InitRun ==
    /\ pc = "start"
    /\ args \in [wildcard : BOOLEAN, tls_challenge : {"http", "dns"},
                 provider : {"none", "cloudflare", "hetzner"},
                 single_upstream : BOOLEAN, domain : RunDomains]
    /\ env \in {{}, {"CLOUDFLARE_API_TOKEN", "HETZNER_DNS_API_TOKEN"}}
    /\ runtime \in Runtimes
    /\ faults = 0
    /\ loc = NoLoc
    /\ effects = <<>>
    /\ err = ""
    /\ enabled = FALSE
    /\ siteFile = NoConfig
    /\ nginxLoaded = NoConfig
    /\ cb = NoCb
    /\ client = "none"
    /\ zones \in SUBSET RunZones
    /\ hzRrsets = {}
    /\ cfRecords = {}
    /\ call = NoCall
    /\ confFile = ConfigFiles(runtime.config_file)
    /\ confHist = <<>>
    /\ confRet = <<>>
    /\ NameIdle

worldVars == <<enabled, siteFile, nginxLoaded, zones, hzRrsets, cfRecords,
               confVars, faults>>

Raise(msg) == pc' = "failed" /\ err' = msg

CommandFailed == "command failed"

\* mutant: the flag combination is not checked
WildcardRejectedNever(a) == FALSE

\* line 138: args.wildcard and args.tls_challenge != "dns"
WildcardRejected(a) == a.wildcard /\ a.tls_challenge # "dns"

\* lines 138-139
CheckWildcard ==
    /\ pc = "start"
    /\ IF WildcardRejected(args)
       THEN Raise("--wildcard requires --tls-challenge dns")
       ELSE pc' = "detect" /\ err' = err
    /\ UNCHANGED <<args, env, runtime, loc, effects, cb, client, call,
                   worldVars, nameVars>>

\* lines 141-161: service and config detection, prompts; build_runtime raises
\* when it finds no config file
Detect ==
    /\ pc = "detect"
    /\ \E found \in BOOLEAN :
           IF found THEN pc' = "install" /\ err' = err
           ELSE Raise("Config file not found")
    /\ UNCHANGED <<args, env, runtime, loc, effects, cb, client, call,
                   worldVars, nameVars>>

\* lines 163-164: install_nginx_and_certbot()
Install ==
    /\ pc = "install"
    /\ \E ok \in BOOLEAN :
           /\ effects' = Append(effects, Eff("install", ok))
           /\ IF ok THEN pc' = "dns" /\ err' = err ELSE Raise(CommandFailed)
    /\ UNCHANGED <<args, env, runtime, loc, cb, client, call, worldVars,
                   nameVars>>

\* _dns_setup lines 71-75: both public-IP lookups; a failed lookup gives None
DnsLookupIps ==
    /\ pc = "dns"
    /\ \E ip_mode \in {"ipv4", "ipv6", "dual"}, ipv4 \in {"", "v1"},
          ipv6 \in {"", "v2"} :
           loc' = [ip_mode |-> ip_mode, ipv4 |-> ipv4, ipv6 |-> ipv6,
                   zone |-> NoZone]
    /\ effects' = Append(effects, Eff("ipify", TRUE))
    /\ pc' = "dns_provider"
    /\ UNCHANGED <<args, env, runtime, err, cb, client, call, worldVars,
                   nameVars>>

\* _dns_setup lines 77-84: manual mode waits for ENTER
DnsManual ==
    /\ pc = "dns_provider"
    /\ args.provider = "none"
    /\ effects' = Append(effects, Eff("confirm_dns", TRUE))
    /\ loc' = NoLoc
    /\ pc' = "site"
    /\ UNCHANGED <<args, env, runtime, err, cb, client, call, worldVars,
                   nameVars>>

TokenVar(provider) ==
    IF provider = "cloudflare" THEN "CLOUDFLARE_API_TOKEN"
    ELSE "HETZNER_DNS_API_TOKEN"

TokenMissing(provider) == TokenVar(provider) \o " is not set"

\* _dns_setup lines 86-91 and 99-104: token, client, zone resolution
DnsFindZone ==
    /\ pc = "dns_provider"
    /\ args.provider \in {"cloudflare", "hetzner"}
    /\ IF TokenVar(args.provider) \notin env
       THEN /\ Raise(TokenMissing(args.provider))
            /\ UNCHANGED <<loc, effects, client, call>>
       ELSE \E failAt \in 0..Len(ZoneCandidates(args.domain)) :
                LET c == IF args.provider = "hetzner"
                         THEN HzFindZone(args.domain, zones, failAt)
                         ELSE CfFindZoneId(args.domain, zones, failAt)
                IN  /\ client' = args.provider
                    /\ call' = c
                    /\ effects' = Append(effects, Eff("dns_find_zone", ~c.raised))
                    /\ IF c.raised
                       THEN Raise("Could not find zone") /\ loc' = loc
                       ELSE /\ pc' = "dns_a" /\ err' = err
                            /\ loc' = [loc EXCEPT !.zone = c.result]
    /\ UNCHANGED <<args, env, runtime, cb, worldVars, nameVars>>

\* one `if want and ip: client.upsert_record(...)` of _dns_setup
DnsUpsertStep(rtype, want, ip, nextpc) ==
    IF ~(want /\ ip # "")
    THEN /\ pc' = nextpc
         /\ UNCHANGED <<effects, err, call, hzRrsets, cfRecords>>
    ELSE IF client = "hetzner"
    THEN \E o \in HzOutcomes(FALSE) :
             LET r == HzUpsert(hzRrsets, zones, loc.zone[2], rtype, args.domain,
                               ip, FALSE, o)
             IN  /\ hzRrsets' = r.rrsets
                 /\ call' = r.call
                 /\ effects' = Append(effects, Eff("dns_upsert", ~r.call.raised))
                 /\ IF r.call.raised THEN Raise("provider error")
                    ELSE pc' = nextpc /\ err' = err
                 /\ UNCHANGED cfRecords
    ELSE \E o \in CfOutcomes, first \in cfRecords \cup {NoRec} :
             /\ CfPickFirst(CfExisting(cfRecords, loc.zone, rtype, args.domain),
                            first)
             /\ LET r == CfUpsert(cfRecords, zones, loc.zone, rtype, args.domain,
                                  ip, first, o)
                IN  /\ cfRecords' = r.records
                    /\ call' = r.call
                    /\ effects' = Append(effects, Eff("dns_upsert", ~r.call.raised))
                    /\ IF r.call.raised THEN Raise("provider error")
                       ELSE pc' = nextpc /\ err' = err
                    /\ UNCHANGED hzRrsets

\* _dns_setup lines 92-93 and 105-106
DnsUpsertA ==
    /\ pc = "dns_a"
    /\ DnsUpsertStep("A", loc.ip_mode \in {"ipv4", "dual"}, loc.ipv4, "dns_aaaa")
    /\ UNCHANGED <<args, env, runtime, loc, cb, client, enabled, siteFile,
                   nginxLoaded, zones, confVars, faults, nameVars>>

\* _dns_setup lines 94-97 and 107-110
DnsUpsertAAAA ==
    /\ pc = "dns_aaaa"
    /\ DnsUpsertStep("AAAA", loc.ip_mode \in {"ipv6", "dual"}, loc.ipv6, "site")
    /\ loc' = IF pc' = "site" THEN NoLoc ELSE loc
    /\ UNCHANGED <<args, env, runtime, cb, client, enabled, siteFile,
                   nginxLoaded, zones, confVars, faults, nameVars>>

\* lines 174-188: what follows enable_site in each challenge mode
AfterEnableSite(tls_challenge) ==
    IF tls_challenge = "http" THEN "acme_write" ELSE "dns01_check"

\* lines 169-172: os.makedirs(webroot), enable_site(domain)
EnableSite ==
    /\ pc = "site"
    /\ \E ok \in BOOLEAN :
           /\ effects' = Append(effects, Eff("enable_site", ok))
           /\ enabled' = ok
           /\ IF ~ok THEN Raise(CommandFailed)
              ELSE /\ err' = err
                   /\ pc' = AfterEnableSite(args.tls_challenge)
    /\ UNCHANGED <<args, env, runtime, loc, cb, client, call, siteFile,
                   nginxLoaded, zones, hzRrsets, cfRecords, confVars, faults, nameVars>>

\* write_site_config(site_path, content), then what follows it
WriteSiteConfig(content, nextpc) ==
    \E ok \in BOOLEAN :
        /\ effects' = Append(effects, [cmd |-> "write_site", ok |-> ok,
                                       kind |-> content.kind])
        /\ siteFile' = IF ok THEN content ELSE siteFile
        /\ IF ok THEN pc' = nextpc /\ err' = err
           ELSE Raise("Failed writing site config")

\* test_and_reload_nginx(), then what follows it
TestAndReload(nextpc) ==
    \E testOk \in BOOLEAN, reloadOk \in BOOLEAN :
        LET r == TestAndReloadNginx(nginxLoaded, siteFile, enabled, testOk,
                                    reloadOk)
        IN  /\ effects' = effects \o r.effects
            /\ nginxLoaded' = r.loaded
            /\ IF r.raised THEN Raise(CommandFailed)
               ELSE pc' = nextpc /\ err' = err

\* line 176
WriteAcmeConfig ==
    /\ pc = "acme_write"
    /\ WriteSiteConfig(RenderAcmeConfig(args.domain, Webroot(args.domain)),
                       "acme_reload")
    /\ UNCHANGED <<args, env, runtime, loc, cb, client, call, enabled,
                   nginxLoaded, zones, hzRrsets, cfRecords, confVars, faults, nameVars>>

\* line 177
ReloadAcmeConfig ==
    /\ pc = "acme_reload"
    /\ TestAndReload("certbot_http")
    /\ UNCHANGED <<args, env, runtime, loc, cb, client, call, enabled,
                   siteFile, zones, hzRrsets, cfRecords, confVars, faults, nameVars>>

Certbot(mode, names) == [cmd |-> "certbot", ok |-> TRUE, mode |-> mode,
                         names |-> names]

\* line 180: certbot_issue_http(domain, email)
CertbotIssueHttp ==
    /\ pc = "certbot_http"
    /\ \E ok \in BOOLEAN :
           /\ effects' = effects \o <<Certbot("http", <<args.domain>>),
                                      Eff("certbot_exit", ok)>>
           /\ IF ok THEN pc' = "https_write" /\ err' = err
              ELSE Raise(CommandFailed)
    /\ UNCHANGED <<args, env, runtime, loc, cb, client, call, worldVars,
                   nameVars>>

\* lines 182-186
CheckDnsChallenge ==
    /\ pc = "dns01_check"
    /\ IF args.provider # "hetzner"
       THEN Raise("DNS challenge automation currently requires --provider hetzner")
       ELSE IF "HETZNER_DNS_API_TOKEN" \notin env
       THEN Raise(TokenMissing("hetzner"))
       ELSE pc' = "certbot_dns" /\ err' = err
    /\ UNCHANGED <<args, env, runtime, loc, effects, cb, client, call,
                   worldVars, nameVars>>

\* certbot_issue_hetzner_dns lines 167-278: token file and scripts written,
\* certbot started with the hooks
CertbotIssueHetznerDns ==
    /\ pc = "certbot_dns"
    /\ cb = NoCb
    /\ \E ok \in BOOLEAN :
           IF ~ok
           THEN /\ effects' = Append(effects, Eff("write_hooks", FALSE))
                /\ Raise(CommandFailed)
                /\ cb' = cb
           ELSE /\ effects' = effects \o
                       <<Eff("write_hooks", TRUE),
                         Certbot("dns", CertbotNames(args.domain, args.wildcard))>>
                /\ cb' = [names |-> CertbotNames(args.domain, args.wildcard),
                          i |-> 1, phase |-> "auth", ok |-> TRUE]
                /\ UNCHANGED <<pc, err>>
    /\ UNCHANGED <<args, env, runtime, loc, client, call, worldVars, nameVars>>

\* the proof value certbot passes for its i-th challenge
Validation(i) == IF i = 1 THEN "p1" ELSE "p2"

\* what may go wrong in one run of a hook script: lookups that give no zone
\* id, and the outcome of its record request
HookFaults(fqdn) ==
    {f \in [miss : SUBSET (1..Len(Split(fqdn))), o : Outcomes] :
        faults + Cardinality(f.miss) + (IF f.o = "ok" THEN 0 ELSE 1)
            <= MaxHookFaults}

FaultsOf(f) == Cardinality(f.miss) + (IF f.o = "ok" THEN 0 ELSE 1)

\* certbot runs the authorization hook for its next name (CERTBOT_DOMAIN is
\* the domain, also for the wildcard name)
RunAuthHook ==
    /\ pc = "certbot_dns"
    /\ cb # NoCb /\ cb.phase = "auth"
    /\ \E f \in HookFaults(args.domain) :
           LET r == AuthScript(args.domain, Validation(cb.i), zones, hzRrsets,
                               f.miss, f.o)
           IN  /\ faults' = faults + FaultsOf(f)
               /\ effects' = Append(effects,
                                    [cmd |-> r.cmd, ok |-> r.ok, reqs |-> r.reqs,
                                     stderr |-> r.stderr, found |-> r.found,
                                     queried |-> r.queried])
               /\ hzRrsets' = r.rrsets
               /\ cb' = IF ~r.ok
                        THEN [cb EXCEPT !.phase = "cleanup", !.i = 1, !.ok = FALSE]
                        ELSE IF cb.i < Len(cb.names)
                        THEN [cb EXCEPT !.i = cb.i + 1]
                        ELSE [cb EXCEPT !.phase = "cleanup", !.i = 1]
    /\ UNCHANGED <<pc, args, env, runtime, loc, err, client, call, enabled,
                   siteFile, nginxLoaded, zones, cfRecords, confVars, nameVars>>

\* certbot runs the cleanup hook for its next name
RunCleanupHook ==
    /\ pc = "certbot_dns"
    /\ cb # NoCb /\ cb.phase = "cleanup"
    /\ \E f \in HookFaults(args.domain) :
           LET r == CleanupScript(args.domain, zones, hzRrsets, f.miss, f.o)
           IN  /\ faults' = faults + FaultsOf(f)
               /\ effects' = Append(effects,
                                    [cmd |-> r.cmd, ok |-> r.ok, reqs |-> r.reqs,
                                     stderr |-> r.stderr, found |-> r.found,
                                     queried |-> r.queried])
               /\ hzRrsets' = r.rrsets
               /\ cb' = IF cb.i < Len(cb.names)
                        THEN [cb EXCEPT !.i = cb.i + 1]
                        ELSE [cb EXCEPT !.phase = "exit"]
    /\ UNCHANGED <<pc, args, env, runtime, loc, err, client, call, enabled,
                   siteFile, nginxLoaded, zones, cfRecords, confVars, nameVars>>

\* line 278: _run(cmd) returns or raises with certbot's exit status; the
\* verdict of the certificate authority is not part of the program
CertbotDnsExit ==
    /\ pc = "certbot_dns"
    /\ cb # NoCb /\ cb.phase = "exit"
    /\ \E ok \in (IF cb.ok THEN BOOLEAN ELSE {FALSE}) :
           /\ effects' = Append(effects, Eff("certbot_exit", ok))
           /\ IF ok THEN pc' = "https_write" /\ err' = err
              ELSE Raise(CommandFailed)
    /\ cb' = NoCb
    /\ UNCHANGED <<args, env, runtime, loc, client, call, worldVars, nameVars>>

\* lines 190-200
WriteHttpsConfig ==
    /\ pc = "https_write"
    /\ WriteSiteConfig(RenderHttpsConfig(args.domain, runtime.http_port,
                                         runtime.longpolling_port,
                                         args.single_upstream, BackendHost),
                       "https_reload")
    /\ UNCHANGED <<args, env, runtime, loc, cb, client, call, enabled,
                   nginxLoaded, zones, hzRrsets, cfRecords, confVars, faults, nameVars>>

\* line 201
ReloadHttpsConfig ==
    /\ pc = "https_reload"
    /\ TestAndReload("renewal")
    /\ UNCHANGED <<args, env, runtime, loc, cb, client, call, enabled,
                   siteFile, zones, hzRrsets, cfRecords, confVars, faults, nameVars>>

\* line 202: ensure_certbot_auto_renewal()
EnsureAutoRenewal ==
    /\ pc = "renewal"
    /\ \E ok \in BOOLEAN :
           /\ effects' = Append(effects, Eff("auto_renewal", ok))
           /\ IF ok THEN pc' = "proxy_mode" /\ err' = err
              ELSE Raise(CommandFailed)
    /\ UNCHANGED <<args, env, runtime, loc, cb, client, call, worldVars,
                   nameVars>>

\* lines 204-206: changed = ensure_proxy_mode(runtime.config_file)
EnsureProxyModeStage ==
    /\ pc = "proxy_mode"
    /\ LET r == EnsureProxyMode(confFile)
       IN  /\ confFile' = r.content
           /\ confHist' = Append(confHist, confFile)
           /\ confRet' = Append(confRet, r.changed)
           /\ effects' = Append(effects, Eff("proxy_mode", TRUE))
    /\ pc' = "restart"
    /\ UNCHANGED <<args, env, runtime, loc, err, cb, client, call, enabled,
                   siteFile, nginxLoaded, zones, hzRrsets, cfRecords, faults, nameVars>>

\* lines 208-214: --restart-service or the answer to the prompt
RestartService ==
    /\ pc = "restart"
    /\ \E restart \in BOOLEAN, ok \in BOOLEAN :
           IF restart /\ runtime.service_name # ""
           THEN /\ effects' = Append(effects, Eff("restart", ok))
                /\ IF ok THEN pc' = "ufw" /\ err' = err
                   ELSE Raise(CommandFailed)
           ELSE /\ pc' = "ufw"
                /\ UNCHANGED <<effects, err>>
    /\ UNCHANGED <<args, env, runtime, loc, cb, client, call, worldVars,
                   nameVars>>

\* lines 216-219: --ufw
ConfigureUfw ==
    /\ pc = "ufw"
    /\ \E ufw \in BOOLEAN, ok \in BOOLEAN :
           IF ufw
           THEN /\ effects' = Append(effects, Eff("ufw", ok))
                /\ IF ok THEN pc' = "done" /\ err' = err
                   ELSE Raise(CommandFailed)
           ELSE /\ pc' = "done"
                /\ UNCHANGED <<effects, err>>
    /\ UNCHANGED <<args, env, runtime, loc, cb, client, call, worldVars,
                   nameVars>>

Next ==
    \/ CheckWildcard
    \/ Detect
    \/ Install
    \/ DnsLookupIps
    \/ DnsManual
    \/ DnsFindZone
    \/ DnsUpsertA
    \/ DnsUpsertAAAA
    \/ EnableSite
    \/ WriteAcmeConfig
    \/ ReloadAcmeConfig
    \/ CertbotIssueHttp
    \/ CheckDnsChallenge
    \/ CertbotIssueHetznerDns
    \/ RunAuthHook
    \/ RunCleanupHook
    \/ CertbotDnsExit
    \/ WriteHttpsConfig
    \/ ReloadHttpsConfig
    \/ EnsureAutoRenewal
    \/ EnsureProxyModeStage
    \/ RestartService
    \/ ConfigureUfw

Spec == InitRun /\ [][Next]_vars

----------------------------------------------------------------------------
(* Claims about zone resolution (SpecZone) *)

IsFindZone == call.op \in {"hz_find_zone", "cf_find_zone_id"}

DropFirstLabel(s) == SubSeq(s, FirstDot(s) + 1, Len(s))

\* each candidate queried is the previous one without its first label, every
\* candidate has at least two labels, nothing is queried after a match, and
\* the call fails when no candidate is a zone or a query fails
C6_Walk ==
    IsFindZone =>
        LET q == call.queried
            n == Len(q)
        IN  /\ \A i \in 1..n : Dots(q[i]) # {}
            /\ \A i \in 1..(n - 1) : q[i + 1] = DropFirstLabel(q[i])
            /\ \A i \in 1..(n - 1) : q[i] \notin zones
            /\ call.status = "ok" =>
                   /\ n >= 1 /\ q[n] \in zones /\ ~call.raised
                   /\ call.result \in {<<q[n], q[n]>>, ZoneId(q[n])}
            /\ call.status = "notfound" =>
                   /\ call.raised
                   /\ \A i \in 1..n : q[i] \notin zones
                   /\ n >= 1 => Cardinality(Dots(q[n])) = 1
                   /\ n = 0 => Dots(fqdnIn) = {}
            /\ call.status = "error" => n >= 1 /\ call.raised

----------------------------------------------------------------------------
(* Claims about upsert_record (SpecUpsert) *)

IsUpsert == call.op \in {"hz_upsert", "cf_upsert"}

RecordsOf(c) ==
    IF c.op = "hz_upsert"
    THEN HzKey(hzRrsets, c.zone, RelativeName(c.fqdn, c.zone), c.type)
    ELSE CfExisting(cfRecords, c.zone, c.type, c.fqdn)

\* C5: an upsert_record call that returns leaves exactly one record of the
\* (zone, name, type), holding the given value.
C5_UpsertLeavesOneRecord ==
    IsUpsert /\ ~call.raised =>
        /\ Cardinality(RecordsOf(call)) = 1
        /\ \A r \in RecordsOf(call) : r.value = call.value

\* the Hetzner half of C5, which holds
HetznerUpsertLeavesOneRecord == call.op = "hz_upsert" => C5_UpsertLeavesOneRecord

HardFailure(st) == st \in {"5xx", "timeout"}

\* C9: a client call one of whose requests ended in a non-success status or
\* a timeout does not return normally.  (404 answers are not even counted.)
C9_FailedCallRaises ==
    /\ IsUpsert =>
           ((\E i \in 1..Len(call.reqs) : HardFailure(call.reqs[i].st))
               => call.raised)
    /\ IsFindZone => (call.failed => call.raised)

----------------------------------------------------------------------------
(* Claims about _relative_name (SpecName) *)

\* fqdn = x.zone_name for a non-empty x
ProperSubdomain(fqdn, zone_name) ==
    /\ fqdn # zone_name
    /\ Len(fqdn) > Len(zone_name) + 1
    /\ EndsWith(fqdn, <<".">> \o zone_name)

IsRelativeForm(name, fqdn, zone_name) ==
    /\ fqdn = zone_name => name = Apex
    /\ ProperSubdomain(fqdn, zone_name) =>
           /\ name \o <<".">> \o zone_name = fqdn
           /\ Len(name) > 0

\* C7: _relative_name gives "@" for the zone itself and the name without the
\* trailing ".zone" for a proper subdomain, and every request upsert_record
\* sends names the record in that form.
C7_RelativeName ==
    /\ nameOut # Pending => IsRelativeForm(nameOut, fqdnIn, zoneIn)
    /\ call.op = "hz_upsert" =>
           /\ Len(call.reqs) >= 1
           /\ \A i \in 1..Len(call.reqs) :
                  IsRelativeForm(call.reqs[i].name, fqdnIn, zoneIn)

\* both calls made for a proper subdomain, the record created
C7_Witness ==
    /\ ProperSubdomain(fqdnIn, zoneIn)
    /\ Dots(zoneIn) = {} /\ zoneIn # <<>>
    /\ Cardinality(Dots(fqdnIn)) = 1
    /\ nameOut \notin {fqdnIn, Apex, <<>>}
    /\ nameOut # Pending
    /\ call.op = "hz_upsert"
    /\ \E i \in 1..Len(call.reqs) :
           call.reqs[i].method = "POST" /\ Success(call.reqs[i].st)

----------------------------------------------------------------------------
(* Claims about ensure_proxy_mode (SpecConf) *)

RECURSIVE Occurrences(_, _)
Occurrences(s, sub) ==
    IF Len(s) < Len(sub) THEN 0
    ELSE (IF SubSeq(s, 1, Len(sub)) = sub THEN 1 ELSE 0)
             + Occurrences(Tail(s), sub)

ContentAfter(i) == IF i < Len(confHist) THEN confHist[i + 1] ELSE confFile

\* the text of the directive occurs in the content
HasDirectiveText(content) == Occurrences(content, Directive) > 0

\* a line of the content is the directive
HasDirectiveLine(content) ==
    \E i \in 1..Len(content) :
        /\ i + Len(Directive) - 1 <= Len(content)
        /\ SubSeq(content, i, i + Len(Directive) - 1) = Directive
        /\ i = 1 \/ content[i - 1] = NL
        /\ i + Len(Directive) - 1 = Len(content)
               \/ content[i + Len(Directive)] = NL

\* one directive line was appended to `before`, giving `after`
AppendedOneLine(before, after) ==
    /\ SubSeq(after, 1, Len(before)) = before
    /\ EndsWith(after, <<NL>> \o Directive \o <<NL>>)
    /\ Len(after) - Len(before) \in {Len(Directive) + 1, Len(Directive) + 2}

\* what the code does: a call on a content in which the text of the directive
\* occurs anywhere changes nothing and returns False; on any other content it
\* appends one directive line and returns True; a second call always
\* returns False and changes nothing
TextualIdempotence ==
    \A i \in 1..Len(confRet) :
        LET before == confHist[i]
            after  == ContentAfter(i)
        IN  /\ HasDirectiveText(before) => after = before /\ confRet[i] = FALSE
            /\ ~HasDirectiveText(before) =>
                   /\ confRet[i] = TRUE
                   /\ AppendedOneLine(before, after)
                   /\ Occurrences(after, Directive) = 1
            /\ i >= 2 => after = before /\ confRet[i] = FALSE

\* C10: for any file content, if a directive enabling proxy mode is present
\* the file is left unchanged and False is returned; otherwise exactly one
\* directive line is appended and True is returned; a second call always
\* returns False and leaves the content as the first call left it.
C10_EnsureProxyModeIdempotent ==
    \A i \in 1..Len(confRet) :
        LET before == confHist[i]
            after  == ContentAfter(i)
        IN  /\ HasDirectiveLine(before) => after = before /\ confRet[i] = FALSE
            /\ ~HasDirectiveLine(before) =>
                   /\ confRet[i] = TRUE
                   /\ AppendedOneLine(before, after)
            /\ i >= 2 => after = before /\ confRet[i] = FALSE

----------------------------------------------------------------------------
(* Claims about cmd_init (Spec) *)

N == Len(effects)

Is(i, cmd) == effects[i].cmd = cmd

IsOk(i, cmd) == effects[i].cmd = cmd /\ effects[i].ok

WildcardMessage == "--wildcard requires --tls-challenge dns"

Untouched ==
    /\ effects = <<>>
    /\ enabled = FALSE /\ siteFile = NoConfig /\ nginxLoaded = NoConfig
    /\ hzRrsets = {} /\ cfRecords = {} /\ call = NoCall /\ cb = NoCb
    /\ confHist = <<>>

\* C1: a run asked for a wildcard in a challenge mode other than DNS-01
\* fails with its error before any command, request or file write.
C1_WildcardNeedsDns ==
    args.wildcard /\ args.tls_challenge # "dns" =>
        /\ Untouched
        /\ pc \in {"start", "failed"}
        /\ pc = "failed" => err = WildcardMessage

C1_Witness ==
    /\ pc = "failed" /\ err = WildcardMessage
    /\ args.wildcard /\ args.tls_challenge = "http"

ConfigurationErrors ==
    {WildcardMessage, TokenMissing("cloudflare"), TokenMissing("hetzner"),
     "DNS challenge automation currently requires --provider hetzner"}

\* C2: a run that ends in a configuration error (flag combination, missing
\* credential, DNS-01 with another provider than hetzner) has had no effect.
C2_ConfigErrorsBeforeEffects ==
    pc = "failed" /\ err \in ConfigurationErrors => Untouched

\* the stage an effect belongs to: 1 tooling, 2 DNS, 3 Acme config,
\* 4 certificate, 5 Https config, 6 auto-renewal, 7 what follows
CertbotBefore(i) == \E j \in 1..(i - 1) : Is(j, "certbot")

StageOf(i) ==
    LET c == effects[i].cmd
    IN  IF c = "install" THEN 1
        ELSE IF c \in {"ipify", "confirm_dns", "dns_find_zone", "dns_upsert"} THEN 2
        ELSE IF c = "enable_site" THEN 3
        ELSE IF c = "write_site" THEN (IF effects[i].kind = "acme" THEN 3 ELSE 5)
        ELSE IF c \in {"nginx -t", "reload nginx"}
             THEN (IF CertbotBefore(i) THEN 5 ELSE 3)
        ELSE IF c \in {"write_hooks", "certbot", "hook_auth", "hook_cleanup",
                       "certbot_exit"} THEN 4
        ELSE IF c = "auto_renewal" THEN 6
        ELSE 7

Swallowed(i) == effects[i].cmd \in {"hook_auth", "hook_cleanup"}

\* stages never go back, a stage is entered only when every stage before it
\* was, nothing follows a failed command, and the Https config is written
\* only after certbot succeeded
C3_Order ==
    /\ \A i \in 1..(N - 1) : StageOf(i) <= StageOf(i + 1)
    /\ \A i \in 1..(N - 1) : effects[i].ok \/ Swallowed(i)
    /\ \A i \in 1..N : \A st \in 1..(StageOf(i) - 1) :
           st <= 6 => \E j \in 1..(i - 1) : StageOf(j) = st
    /\ \A i \in 1..N : Is(i, "write_site") /\ effects[i].kind = "https" =>
           \E j \in 1..(i - 1) : IsOk(j, "certbot_exit")

AcmeLoadedBefore(i) ==
    \E a \in 1..(i - 1), b \in 1..(i - 1), c \in 1..(i - 1) :
        /\ a < b /\ b < c
        /\ IsOk(a, "write_site") /\ effects[a].kind = "acme"
        /\ IsOk(b, "nginx -t")
        /\ IsOk(c, "reload nginx")

\* what the code does in each mode: with the HTTP-01 challenge certbot runs
\* only after the Acme config was written and reloaded; with the DNS-01
\* challenge no Acme config is written and certbot runs right after the site
\* was enabled
StageOrderPerMode ==
    /\ C3_Order
    /\ \A i \in 1..N : Is(i, "certbot") =>
           IF args.tls_challenge = "http" THEN AcmeLoadedBefore(i)
           ELSE /\ \A j \in 1..N : Is(j, "write_site") => effects[j].kind = "https"
                /\ \E j \in 1..(i - 1) : IsOk(j, "enable_site")

\* C3: in both challenge modes the stages run in the order tooling, DNS,
\* Acme config and reload, certificate, Https config and reload,
\* auto-renewal, each only after the previous one succeeded: certbot is
\* never invoked before the Acme config was written and reloaded, and the
\* Https config is never written before certbot succeeded.
C3_StageOrder ==
    /\ C3_Order
    /\ \A i \in 1..N : Is(i, "certbot") => AcmeLoadedBefore(i)

\* the configuration that was active before the Https config was written
ActiveBeforeHttps ==
    IF args.tls_challenge = "http"
    THEN RenderAcmeConfig(args.domain, Webroot(args.domain))
    ELSE NoConfig

\* nginx -t or the reload failed after the Https config was written
HttpsSwitchFailed ==
    /\ siteFile.kind = "https"
    /\ \E i \in 1..N :
           /\ CertbotBefore(i)
           /\ effects[i].cmd \in {"nginx -t", "reload nginx"}
           /\ ~effects[i].ok

\* C4: when nginx -t (or the reload) fails after the Https config was
\* written, no reload is performed after a failed test, the run ends in an
\* error, nginx still serves what it served before, and no later stage runs.
C4_SwitchoverSafety ==
    HttpsSwitchFailed =>
        /\ pc = "failed" /\ err # ""
        /\ nginxLoaded = ActiveBeforeHttps
        /\ nginxLoaded # siteFile
        /\ \A i \in 1..N : Is(i, "nginx -t") /\ ~effects[i].ok => i = N
        /\ \A i \in 1..N : StageOf(i) <= 5
        /\ confHist = <<>>

\* nginx -t fails on the Https config of an HTTP-01 run
C4_Witness ==
    /\ HttpsSwitchFailed
    /\ Is(N, "nginx -t")
    /\ args.tls_challenge = "http"
    /\ nginxLoaded.kind = "acme"

----------------------------------------------------------------------------
(* The end-to-end DNS-01 run (Spec) *)

\* zones of the provider the domain lies in
SuffixZones(domain) ==
    {z \in zones : z = domain \/ ProperSubdomain(domain, z)}

\* the zone owning the domain: the most specific of them
IsOwner(z, domain) ==
    /\ z \in SuffixZones(domain)
    /\ \A y \in SuffixZones(domain) : Len(y) <= Len(z)

\* name is _acme-challenge, followed by the domain relative to the zone
IsAcmeName(name, domain, z) ==
    IF domain = z THEN name = AcmeChallenge
    ELSE /\ Len(name) > 2
         /\ SubSeq(name, 1, 2) = AcmeChallenge \o <<".">>
         /\ SubSeq(name, 3, Len(name)) \o <<".">> \o z = domain

HookPosts ==
    {i \in 1..N : Is(i, "hook_auth") /\ effects[i].reqs # <<>>}

\* every record the authorization hook asks for is a TXT record named
\* _acme-challenge.<domain relative to the zone> in a zone the domain lies in;
\* when all lookups and requests of the hooks are answered, that zone is the
\* owning zone and exactly one record is created
C8_HookRecord ==
    /\ \A i \in HookPosts :
           LET rq == effects[i].reqs[1]
           IN  /\ rq.method = "POST" /\ rq.type = "TXT"
               /\ rq.zone \in SuffixZones(args.domain)
               /\ IsAcmeName(rq.name, args.domain, rq.zone)
               /\ faults = 0 => IsOwner(rq.zone, args.domain)
    /\ faults = 0 /\ HookPosts # {} =>
           Cardinality({i \in HookPosts : Success(effects[i].reqs[1].st)}) = 1

\* certbot is invoked at most once, and once when the run got past the
\* certificate stage, for the domain, and for *.domain too with --wildcard
C8_CertbotOnce ==
    /\ Cardinality({i \in 1..N : Is(i, "certbot")}) <= 1
    /\ pc \in {"https_write", "https_reload", "renewal", "proxy_mode",
               "restart", "ufw", "done"} =>
           Cardinality({i \in 1..N : Is(i, "certbot")}) = 1
    /\ \A i \in 1..N : Is(i, "certbot") =>
           /\ effects[i].names[1] = args.domain
           /\ Len(effects[i].names) = IF args.wildcard THEN 2 ELSE 1
           /\ args.wildcard =>
                  effects[i].names[2] = <<"*", ".">> \o args.domain
           /\ effects[i].mode = args.tls_challenge

PortsOf(config) == {u.server[2] : u \in config.upstreams}

----------------------------------------------------------------------------
(* Claims about the hook scripts certbot runs (Spec) *)

Cleanups == {i \in 1..N : Is(i, "hook_cleanup")}

\* C11: the cleanup hook always exits with success, asks for the removal of
\* nothing but the TXT record _acme-challenge[.<subdomain>] of the validated
\* name in a zone the name lies in, and sends no delete request when it
\* found no owning zone.
C11_CleanupNeverFails ==
    \A i \in Cleanups :
        /\ effects[i].ok
        /\ ~effects[i].found => effects[i].reqs = <<>>
        /\ \A k \in 1..Len(effects[i].reqs) :
               LET rq == effects[i].reqs[k]
               IN  /\ rq.method = "DELETE" /\ rq.type = "TXT"
                   /\ rq.zone \in SuffixZones(args.domain)
                   /\ IsAcmeName(rq.name, args.domain, rq.zone)

\* what the code does when every lookup and the delete call are answered:
\* the hook exits with success and asks for the removal of that one record
CleanupWhenAnswered ==
    faults = 0 => C11_CleanupNeverFails

Auths == {i \in 1..N : Is(i, "hook_auth")}

\* the proof value the i-th effect, a run of the authorization hook, was given
ValidationAt(i) == Validation(Cardinality({j \in Auths : j <= i}))

\* the provider holds a TXT record of that zone and name with the value
TxtRecordExists(zone_name, name, value) ==
    \E r \in hzRrsets :
        r.zone = zone_name /\ r.name = name /\ r.type = "TXT" /\ r.value = value

\* C12: the authorization hook exits with success only if the TXT record
\* holding its proof value exists at the provider when it returns; without
\* an owning zone it fails with a diagnostic and creates nothing; when the
\* record creation is rejected or gets no answer it fails, and certbot and
\* the run fail with it.
C12_AuthSuccessMeansRecord ==
    /\ \A i \in Auths :
           ~effects[i].found =>
               ~effects[i].ok /\ effects[i].stderr # "" /\ effects[i].reqs = <<>>
    /\ \A i \in Auths :
           (\E k \in 1..Len(effects[i].reqs) : ~Success(effects[i].reqs[k].st))
               => ~effects[i].ok
    /\ N >= 1 /\ Is(N, "hook_auth") /\ effects[N].ok =>
           /\ effects[N].reqs # <<>>
           /\ TxtRecordExists(effects[N].reqs[1].zone, effects[N].reqs[1].name,
                              Quoted(ValidationAt(N)))
    /\ \A i \in Auths : ~effects[i].ok =>
           /\ pc \in {"certbot_dns", "failed"}
           /\ \A j \in (i + 1)..N :
                  /\ ~Is(j, "hook_auth")
                  /\ Is(j, "certbot_exit") => ~effects[j].ok

\* what the code does: the hook fails when it finds no zone or its request
\* gets no answer, and a failed hook ends certbot and the run; a request the
\* provider rejects leaves the hook's exit status at success
AuthFailsOnlyWithoutAnswer ==
    /\ \A i \in Auths :
           effects[i].ok <=>
               /\ effects[i].found
               /\ \A k \in 1..Len(effects[i].reqs) :
                      effects[i].reqs[k].st # "timeout"
    /\ \A i \in Auths : ~effects[i].ok =>
           /\ pc \in {"certbot_dns", "failed"}
           /\ \A j \in (i + 1)..N :
                  /\ ~Is(j, "hook_auth")
                  /\ Is(j, "certbot_exit") => ~effects[j].ok

----------------------------------------------------------------------------
(* Claims about find_zone of the hook scripts (SpecHookZone) *)

\* both lookups were made for the name, and every query of both was answered
BothResolved ==
    /\ call.op = "hz_find_zone" /\ ~call.failed
    /\ effects # <<>> /\ effects[1].cmd = "hook_find_zone"
    /\ effects[1].missed = {}

\* C13: for every name and every set of zones, find_zone of the hook
\* scripts and find_zone of the client query the same candidates in the
\* same order, resolve to the same zone, and find no zone in the same cases.
C13_HookZoneEquivalent ==
    BothResolved =>
        /\ effects[1].queried = call.queried
        /\ effects[1].found <=> call.status = "ok"
        /\ call.status = "ok" => effects[1].zone = call.result[1]

\* what the code does: the hook queries what the client queries, and after
\* the last two labels goes on to the last label alone; the two agree on
\* every zone of two labels or more
HookZoneWalksOneFurther ==
    BothResolved =>
        /\ call.status = "ok" =>
               /\ effects[1].found
               /\ effects[1].zone = call.result[1]
               /\ effects[1].queried = call.queried
        /\ call.status = "notfound" =>
               /\ Len(effects[1].queried) = Len(call.queried) + 1
               /\ SubSeq(effects[1].queried, 1, Len(call.queried)) = call.queried
               /\ Dots(effects[1].queried[Len(effects[1].queried)]) = {}
               /\ effects[1].found => Dots(effects[1].zone) = {}

----------------------------------------------------------------------------
(* Claims about the Acme config (Spec) *)

\* plaintext requests for the domain: uris are a first path segment and
\* what follows it
HttpRequests ==
    {[host |-> args.domain, uri |-> u] :
        u \in {<<"/">>, <<"/web/", "login">>,
               <<"/.well-known/acme-challenge/", "token">>}}

IsChallengePath(uri) == uri[1] = "/.well-known/acme-challenge/"

\* the url of a plaintext request, as a redirect would name it
HttpUrl(req) == <<"http", "://", req.host, req.uri>>

\* C14: while nginx serves the Acme config, a request for the challenge
\* path is served from the webroot and a request for any other path is
\* redirected to an https url, never to the http url it came from.
C14_AcmeRedirectsToHttps ==
    nginxLoaded.kind = "acme" =>
        \A req \in HttpRequests :
            LET resp == ServeAcme(nginxLoaded, req)
            IN  IF IsChallengePath(req.uri)
                THEN resp.kind = "file" /\ resp.root = Webroot(args.domain)
                ELSE /\ resp.kind = "redirect"
                     /\ resp.location[1] = "https"
                     /\ resp.location # HttpUrl(req)

\* what the code does: the challenge path is served from the webroot, and
\* every other request is redirected with 301 to its own http url
AcmeRedirectsToItself ==
    nginxLoaded.kind = "acme" =>
        \A req \in HttpRequests :
            LET resp == ServeAcme(nginxLoaded, req)
            IN  IF IsChallengePath(req.uri)
                THEN resp.kind = "file" /\ resp.root = Webroot(args.domain)
                ELSE /\ resp.kind = "redirect" /\ resp.status = "301"
                     /\ resp.location = HttpUrl(req)

====
